---- MODULE Spec2Model ----
(***************************************************************************)
(* Model of electron/AudioStreamProcessor.ts (class AudioStreamProcessor). *)
(*                                                                         *)
(* The processor runs on one JavaScript event loop.  A public call or an   *)
(* I/O completion runs synchronously up to its next await; a continuation  *)
(* behind an await of an already settled promise is a microtask and runs   *)
(* before any I/O completion; file writes, the transcription request and   *)
(* the unlink are real suspension points.                                  *)
(*                                                                         *)
(* Text is a sequence of characters.  A character is written as a short    *)
(* ASCII name: kana and kanji by their reading ("do" is ど, "nani" is 何), *)
(* "FWQ" is the full-width ？, "FWX" the full-width ！, "MARU" is 。,      *)
(* "TEN" is 、, "NL" a line feed, "CHO" is ー, "NAMI" is 〜, "q" and "Q"   *)
(* a Latin letter in its two cases.                                        *)
(***************************************************************************)
EXTENDS Integers, Sequences, FiniteSets, TLC

\* ------------------------------------------------------------------------
\* Strings
\* ------------------------------------------------------------------------

\* \s of a JavaScript regular expression and of String.prototype.trim
IsSpace(c) == c \in {" ", "NL"}

\* String.prototype.toLowerCase, one character
LowerChar(c) == IF c = "Q" THEN "q" ELSE c

\* String.prototype.toUpperCase, one character
UpperChar(c) == IF c = "q" THEN "Q" ELSE c

\* /[a-zA-Z]/
IsLatin(c) == c \in {"q", "Q"}

toLowerCase(s) == [i \in 1..Len(s) |-> LowerChar(s[i])]

RECURSIVE TrimLeft(_)
TrimLeft(s) == IF s # <<>> /\ IsSpace(Head(s)) THEN TrimLeft(Tail(s)) ELSE s

RECURSIVE TrimRight(_)
TrimRight(s) ==
  IF s # <<>> /\ IsSpace(s[Len(s)]) THEN TrimRight(SubSeq(s, 1, Len(s) - 1)) ELSE s

\* String.prototype.trim
trim(s) == TrimRight(TrimLeft(s))

\* String.prototype.slice(-n)
SliceLast(s, n) == IF Len(s) <= n THEN s ELSE SubSeq(s, Len(s) - n + 1, Len(s))

\* pat occurs in s at position i
MatchAt(s, pat, i) ==
  /\ i >= 1
  /\ i + Len(pat) - 1 <= Len(s)
  /\ SubSeq(s, i, i + Len(pat) - 1) = pat

\* String.prototype.includes
includes(s, pat) == \E i \in 1..(Len(s) + 1) : MatchAt(s, pat, i)

\* String.prototype.endsWith
endsWith(s, pat) == MatchAt(s, pat, Len(s) - Len(pat) + 1)

startsWith(s, pat) == MatchAt(s, pat, 1)

\* Array.prototype.join
RECURSIVE join(_, _)
join(parts, sep) ==
  IF parts = <<>> THEN <<>>
  ELSE IF Len(parts) = 1 THEN parts[1]
  ELSE parts[1] \o sep \o join(Tail(parts), sep)

\* concatenation of a sequence of sequences (Array.prototype.flatMap, push(...xs))
RECURSIVE Flatten(_)
Flatten(ss) == IF ss = <<>> THEN <<>> ELSE Head(ss) \o Flatten(Tail(ss))

\* Array.prototype.filter
RECURSIVE SelectNonEmpty(_)
SelectNonEmpty(ss) ==
  IF ss = <<>> THEN <<>>
  ELSE IF Head(ss) = <<>> THEN SelectNonEmpty(Tail(ss))
  ELSE <<Head(ss)>> \o SelectNonEmpty(Tail(ss))

\* String.prototype.split on a regular expression that matches one character of
\* the set delims: the pieces between the delimiters, empty pieces included.
RECURSIVE SplitChars(_, _, _)
SplitChars(s, delims, cur) ==
  IF s = <<>> THEN <<cur>>
  ELSE IF Head(s) \in delims THEN <<cur>> \o SplitChars(Tail(s), delims, <<>>)
  ELSE SplitChars(Tail(s), delims, Append(cur, Head(s)))

\* String.prototype.split on a non-empty string separator
RECURSIVE SplitWord(_, _, _)
SplitWord(s, w, cur) ==
  IF s = <<>> THEN <<cur>>
  ELSE IF startsWith(s, w) THEN <<cur>> \o SplitWord(SubSeq(s, Len(w) + 1, Len(s)), w, <<>>)
  ELSE SplitWord(Tail(s), w, Append(cur, Head(s)))

\* .map(p => p.trim()).filter(Boolean)
TrimAll(ss) == SelectNonEmpty([i \in 1..Len(ss) |-> trim(ss[i])])

\* ------------------------------------------------------------------------
\* Word tables of AudioStreamProcessor.ts
\* ------------------------------------------------------------------------

\* fillerWords (a Set: the repeated entry counts once)
fillerWords ==
  {
    <<"e", "CHO">>,  \* えー
    <<"a", "CHO">>,  \* あー
    <<"u", "CHO">>,  \* うー
    <<"n", "CHO">>,  \* んー
    <<"so", "no", "CHO">>,  \* そのー
    <<"a", "no", "CHO">>,  \* あのー
    <<"e", "CHO", "xtsu", "to">>,  \* えーっと
    <<"a", "CHO", "to">>,  \* あーと
    <<"ma", "a">>,  \* まあ
    <<"na", "n", "ka">>,  \* なんか
    <<"chi", "xyo", "xtsu", "to">>,  \* ちょっと
    <<"ya", "xtsu", "pa", "ri">>,  \* やっぱり
    <<"ya", "xtsu", "pa">>,  \* やっぱ
    <<"da", "ka", "ra">>,  \* だから
    <<"de", "mo">>,  \* でも
    <<"u", "n">>,  \* うん
    <<"ha", "i">>,  \* はい
    <<"so", "u">>,  \* そう
    <<"de", "su", "ne">>,  \* ですね
    <<"de", "su", "ga">>,  \* ですが
    <<"ta", "da">>,  \* ただ
    <<"ma", "zu">>,  \* まず
    <<"so", "re", "de">>,  \* それで
    <<"to", "i", "u", "ka">>,  \* というか
    <<"te", "ka">>,  \* てか
    <<"na", "no", "de">>,  \* なので
    <<"ke", "do">>,  \* けど
    <<"ke", "re", "do">>,  \* けれど
    <<"shi", "ka", "shi">>,  \* しかし
    <<"CHO">>,  \* ー
    <<"NAMI">>,  \* 〜
    <<"u", "NAMI", "n">>,  \* う〜ん
    <<"e", "NAMI">>,  \* え〜
    <<"a", "NAMI">>,  \* あ〜
    <<"so", "NAMI">>,  \* そ〜
    <<"n", "NAMI">>,  \* ん〜
    <<"ji", "xya", "a">>,  \* じゃあ
    <<"de", "ha">>,  \* では
    <<"so", "re", "de", "ha">>,  \* それでは
    <<"sa", "te">>,  \* さて
    <<"chi", "na", "mi", "ni">>,  \* ちなみに
    <<"to", "ko", "ro", "de">>,  \* ところで
    <<"e", "xtsu", "to">>,  \* えっと
    <<"e", "to">>,  \* えと
    <<"a", "no">>,  \* あの
    <<"so", "no">>,  \* その
    <<"to", "ri", "a", "e", "zu">>,  \* とりあえず
    <<"ma", "xa">>,  \* まぁ
    <<"ma", "xa", "so", "no">>,  \* まぁその
    <<"na", "n", "te", "i", "u", "ka">>  \* なんていうか
  }

\* questionStarters
questionStarters ==
  {
    <<"do", "u">>,  \* どう
    <<"do", "no">>,  \* どの
    <<"do", "ko">>,  \* どこ
    <<"i", "tsu">>,  \* いつ
    <<"na", "ze">>,  \* なぜ
    <<"na", "n">>,  \* なん
    <<"nani">>,  \* 何
    <<"da", "re">>,  \* だれ
    <<"dare">>,  \* 誰
    <<"do", "chi", "ra">>,  \* どちら
    <<"do", "re">>,  \* どれ
    <<"i", "ku", "ra">>,  \* いくら
    <<"i", "ku", "tsu">>,  \* いくつ
    <<"do", "no", "yo", "u">>,  \* どのよう
    <<"do", "n", "na">>  \* どんな
  }

\* looksLikeQuestion: the patterns /X.*/, which match when X occurs
QuestionWordPatterns ==
  {
    <<"do", "u">>,  \* どう
    <<"do", "no">>,  \* どの
    <<"do", "ko">>,  \* どこ
    <<"i", "tsu">>,  \* いつ
    <<"na", "ze">>,  \* なぜ
    <<"na", "n">>,  \* なん
    <<"nani">>,  \* 何
    <<"da", "re">>,  \* だれ
    <<"dare">>,  \* 誰
    <<"do", "chi", "ra">>,  \* どちら
    <<"do", "re">>,  \* どれ
    <<"i", "ku", "ra">>,  \* いくら
    <<"i", "ku", "tsu">>  \* いくつ
  }

\* looksLikeQuestion: the patterns /.*X/, which match when X occurs
QuestionEndingPatterns ==
  {
    <<"de", "su", "ka">>,  \* ですか
    <<"ma", "su", "ka">>,  \* ますか
    <<"de", "shi", "xyo", "u", "ka">>,  \* でしょうか
    <<"ka", "shi", "ra">>,  \* かしら
    <<"no", "ka">>  \* のか
  }

\* looksLikeQuestion: the polite request endings
PoliteRequestsLooks ==
  {
    <<"oshi", "e", "te", "ku", "da", "sa", "i">>,  \* 教えてください
    <<"o", "kiku", "ka", "se", "ku", "da", "sa", "i">>,  \* お聞かせください
    <<"o", "nega", "i", "shi", "ma", "su">>,  \* お願いします
    <<"o", "nega", "i", "de", "ki", "ma", "su", "ka">>,  \* お願いできますか
    <<"o", "nega", "i", "shi", "te", "mo", "i", "i", "de", "su", "ka">>,  \* お願いしてもいいですか
    <<"i", "ta", "da", "ke", "ma", "su", "ka">>,  \* いただけますか
    <<"itada", "ke", "ma", "su", "ka">>,  \* 頂けますか
    <<"i", "ta", "da", "ke", "ma", "se", "n", "ka">>,  \* いただけませんか
    <<"te", "mo", "ra", "e", "ma", "su", "ka">>,  \* てもらえますか
    <<"te", "ku", "re", "ma", "su", "ka">>,  \* てくれますか
    <<"te", "ku", "da", "sa", "i">>  \* てください
  }

\* splitIntoQuestions: the polite request endings of its filter
PoliteRequestsSplit ==
  {
    <<"oshi", "e", "te", "ku", "da", "sa", "i">>,  \* 教えてください
    <<"o", "kiku", "ka", "se", "ku", "da", "sa", "i">>,  \* お聞かせください
    <<"o", "nega", "i", "shi", "ma", "su">>,  \* お願いします
    <<"o", "nega", "i", "de", "ki", "ma", "su", "ka">>,  \* お願いできますか
    <<"i", "ta", "da", "ke", "ma", "su", "ka">>,  \* いただけますか
    <<"itada", "ke", "ma", "su", "ka">>,  \* 頂けますか
    <<"i", "ta", "da", "ke", "ma", "se", "n", "ka">>,  \* いただけませんか
    <<"te", "mo", "ra", "e", "ma", "su", "ka">>,  \* てもらえますか
    <<"te", "ku", "re", "ma", "su", "ka">>,  \* てくれますか
    <<"te", "ku", "da", "sa", "i">>  \* てください
  }

\* splitIntoQuestions: /(ですか|ますか|でしょうか|か)$/
QuestionEndingsSplit ==
  {
    <<"de", "su", "ka">>,  \* ですか
    <<"ma", "su", "ka">>,  \* ますか
    <<"de", "shi", "xyo", "u", "ka">>,  \* でしょうか
    <<"ka">>  \* か
  }

\* splitIntoQuestions: connectors, in the order they are applied
connectors ==
  <<
    <<"so", "re", "ka", "ra">>,  \* それから
    <<"a", "to">>,  \* あと
    <<"tsugi", "ni">>,  \* 次に
    <<"tsu", "gi", "ni">>  \* つぎに
  >>

\* trimPreface: leadingPrefacePattern, the alternatives before \s+
leadingPreface ==
  {
    <<"ji", "xya", "a">>,  \* じゃあ
    <<"de", "ha">>,  \* では
    <<"so", "re", "de", "ha">>,  \* それでは
    <<"sa", "te">>,  \* さて
    <<"chi", "na", "mi", "ni">>,  \* ちなみに
    <<"to", "ko", "ro", "de">>,  \* ところで
    <<"e", "xtsu", "to">>,  \* えっと
    <<"e", "to">>,  \* えと
    <<"a", "no">>,  \* あの
    <<"so", "no">>,  \* その
    <<"to", "ri", "a", "e", "zu">>,  \* とりあえず
    <<"ma", "xa">>,  \* まぁ
    <<"ma", "xa", "so", "no">>,  \* まぁその
    <<"na", "n", "te", "i", "u", "ka">>,  \* なんていうか
    <<"ma", "zu">>,  \* まず
    <<"e", "CHO">>,  \* えー
    <<"a", "CHO">>,  \* あー
    <<"u", "CHO">>,  \* うー
    <<"so", "no", "CHO">>,  \* そのー
    <<"e", "CHO", "xtsu", "to">>  \* えーっと
  }

\* trimPreface: keepTopicPatterns, the endings that may occur anywhere after について
keepTopicEndings ==
  {
    <<"de", "su", "ka">>,  \* ですか
    <<"ma", "su", "ka">>,  \* ますか
    <<"de", "shi", "xyo", "u", "ka">>,  \* でしょうか
    <<"ka">>  \* か
  }

\* refineQuestionAlgorithmically: step 5, the optional trailing particle
trailingParticles ==
  {
    <<"de", "su">>,  \* です
    <<"ma", "su">>,  \* ます
    <<"da">>,  \* だ
    <<"de", "a", "ru">>,  \* である
    <<"de", "shi", "xyo", "u">>,  \* でしょう
    <<"ka", "na">>,  \* かな
    <<"yo", "ne">>  \* よね
  }

\* hasRecentQuestionActivity: quickQuestionPatterns
quickQuestionPatterns ==
  {
    <<"do", "u">>,  \* どう
    <<"do", "no">>,  \* どの
    <<"do", "ko">>,  \* どこ
    <<"i", "tsu">>,  \* いつ
    <<"na", "ze">>,  \* なぜ
    <<"na", "n">>,  \* なん
    <<"nani">>,  \* 何
    <<"da", "re">>,  \* だれ
    <<"dare">>,  \* 誰
    <<"de", "su", "ka">>,  \* ですか
    <<"ma", "su", "ka">>,  \* ますか
    <<"de", "shi", "xyo", "u", "ka">>,  \* でしょうか
    <<"ka", "FWQ">>,  \* か？
    <<"ka", "MARU">>  \* か。
  }

\* single words used by the patterns below
W_nitsuite == <<"ni", "tsu", "i", "te">>  \* について
W_dou == <<"do", "u">>  \* どう
W_nani == <<"nani">>  \* 何
W_itsu == <<"i", "tsu">>  \* いつ
W_doko == <<"do", "ko">>  \* どこ
W_dare == <<"da", "re">>  \* だれ
W_naze == <<"na", "ze">>  \* なぜ
W_deshouka == <<"de", "shi", "xyo", "u", "ka">>  \* でしょうか

\* performStreamingQuestionDetection: the character class after どう
C_dou == {"de", "su", "|", "shi", "xyo", "u", "omo", "i", "kanga", "e"}  \* [です|でしょう|思い|考え]
\* performStreamingQuestionDetection: the character class after 何
C_nani == {"ga", "|", "wo", "de", "ni"}  \* [が|を|で|に]
\* performStreamingQuestionDetection: the character class before か
C_desu == {"de", "su", "|", "ma"}  \* [です|ます]
\* performStreamingQuestionDetection: the closing character class [か？]
C_kaq == {"ka", "FWQ"}  \* [か？]
\* performStreamingQuestionDetection: the closing character class [？。]
C_qmaru == {"FWQ", "MARU"}  \* [？。]

\* ------------------------------------------------------------------------
\* Question extraction (looksLikeQuestion, splitIntoQuestions, trimPreface,
\* refineQuestionAlgorithmically)
\* ------------------------------------------------------------------------

QuestionMarks == {"?", "FWQ"}

\* looksLikeQuestion: some pattern of questionPatterns is found in text
looksLikeQuestion(text) ==
  \/ \E p \in QuestionWordPatterns : includes(text, p)
  \/ \E p \in QuestionEndingPatterns : includes(text, p)
  \/ \E p \in PoliteRequestsLooks :
       \/ endsWith(text, p)
       \/ \E c \in {"MARU", "?", "FWQ"} : endsWith(text, p \o <<c>>)

\* p.replace(/[、\s]+$/g, '')
RECURSIVE StripTrailing(_, _)
StripTrailing(s, chars) ==
  IF s # <<>> /\ s[Len(s)] \in chars
  THEN StripTrailing(SubSeq(s, 1, Len(s) - 1), chars)
  ELSE s

\* splitIntoQuestions, "Further split by question marks while keeping content"
SplitByQuestionMark(part) ==
  LET qmSplit == TrimAll(SplitChars(part, QuestionMarks, <<>>))
  IN  IF Len(qmSplit) > 1 THEN qmSplit ELSE <<part>>

\* splitIntoQuestions, the loop over the connectors: subParts after the first k
RECURSIVE SplitByConnectors(_, _)
SplitByConnectors(subParts, k) ==
  IF k = 0 THEN subParts
  ELSE LET prev == SplitByConnectors(subParts, k - 1)
       IN  Flatten([i \in 1..Len(prev) |-> TrimAll(SplitWord(prev[i], connectors[k], <<>>))])

\* splitIntoQuestions, the final filter
IsQuestionPart(p) ==
  /\ Len(p) >= 2
  /\ \/ looksLikeQuestion(p)
     \/ p[Len(p)] \in QuestionMarks
     \/ \E e \in QuestionEndingsSplit : endsWith(p, e)
     \/ \E e \in PoliteRequestsSplit : endsWith(p, e)

RECURSIVE SelectQuestionParts(_)
SelectQuestionParts(ps) ==
  IF ps = <<>> THEN <<>>
  ELSE IF IsQuestionPart(Head(ps)) THEN <<Head(ps)>> \o SelectQuestionParts(Tail(ps))
  ELSE SelectQuestionParts(Tail(ps))

splitIntoQuestions(text) ==
  IF text = <<>> THEN <<>>
  ELSE
    LET parts == TrimAll(SplitChars(text, {"NL", "FWX", "FWQ", "!", "MARU"}, <<>>))
        refinedParts == Flatten([i \in 1..Len(parts) |-> SplitByQuestionMark(parts[i])])
        finalParts ==
          Flatten([i \in 1..Len(refinedParts) |->
                     SplitByConnectors(<<refinedParts[i]>>, Len(connectors))])
        stripped ==
          [i \in 1..Len(finalParts) |-> trim(StripTrailing(finalParts[i], {"TEN", " ", "NL"}))]
    IN  SelectQuestionParts(stripped)

\* trimPreface: keepTopicPatterns; "." does not match a line feed
KeepsTopic(s) ==
  \E i \in 1..Len(s) :
    /\ MatchAt(s, W_nitsuite, i)
    /\ \E j \in (i + Len(W_nitsuite))..Len(s) :
         /\ \A k \in (i + Len(W_nitsuite))..(j - 1) : s[k] # "NL"
         /\ \/ \E e \in keepTopicEndings : MatchAt(s, e, j)
            \/ (j = Len(s) /\ s[j] \in QuestionMarks)

\* trimPreface: leadingPrefacePattern matches at the start of s
HasLeadingPreface(s) ==
  \E w \in leadingPreface : startsWith(s, w) /\ Len(s) > Len(w) /\ IsSpace(s[Len(w) + 1])

\* result.replace(leadingPrefacePattern, '').trim()
DropLeadingPreface(s) ==
  LET w == CHOOSE x \in leadingPreface :
             startsWith(s, x) /\ Len(s) > Len(x) /\ IsSpace(s[Len(x) + 1])
  IN  trim(SubSeq(s, Len(w) + 1, Len(s)))

RECURSIVE TrimPrefaceLoop(_, _)
TrimPrefaceLoop(s, n) ==
  IF n > 0 /\ HasLeadingPreface(s) THEN TrimPrefaceLoop(DropLeadingPreface(s), n - 1) ELSE s

trimPreface(text) ==
  LET trimmed == trim(text)
  IN  IF trimmed = <<>> THEN trimmed
      ELSE IF KeepsTopic(trimmed) THEN trimmed
      ELSE TrimPrefaceLoop(trimmed, 3)

RECURSIVE SelectNotFiller(_)
SelectNotFiller(ws) ==
  IF ws = <<>> THEN <<>>
  ELSE IF Head(ws) \in fillerWords THEN SelectNotFiller(Tail(ws))
  ELSE <<Head(ws)>> \o SelectNotFiller(Tail(ws))

\* refineQuestionAlgorithmically, step 2
RECURSIVE Deduplicate(_, _)
Deduplicate(ws, lastWord) ==
  IF ws = <<>> THEN <<>>
  ELSE (IF Head(ws) # lastWord \/ Head(ws) \notin fillerWords THEN <<Head(ws)>> ELSE <<>>)
         \o Deduplicate(Tail(ws), Head(ws))

\* refined.replace(/\s+/g, ' ')
RECURSIVE CollapseSpaces(_)
CollapseSpaces(s) ==
  IF s = <<>> THEN <<>>
  ELSE IF IsSpace(Head(s)) THEN <<" ">> \o CollapseSpaces(TrimLeft(s))
  ELSE <<Head(s)>> \o CollapseSpaces(Tail(s))

\* the tail of s from position i matches \s*(particle)?\s*$
IsParticleTail(s, i) ==
  LET t == trim(SubSeq(s, i, Len(s)))
  IN  t = <<>> \/ t \in trailingParticles

\* refined.replace(/\s*(です|ます|だ|である|でしょう|かな|よね)?\s*$/i, ''): the
\* leftmost match is removed
StripTrailingParticle(s) ==
  LET i == CHOOSE k \in 1..(Len(s) + 1) :
             IsParticleTail(s, k) /\ \A m \in 1..(k - 1) : ~IsParticleTail(s, m)
  IN  SubSeq(s, 1, i - 1)

RECURSIVE RemoveChars(_, _)
RemoveChars(s, chars) ==
  IF s = <<>> THEN <<>>
  ELSE IF Head(s) \in chars THEN RemoveChars(Tail(s), chars)
  ELSE <<Head(s)>> \o RemoveChars(Tail(s), chars)

\* refineQuestionAlgorithmically, step 6
EnsureQuestionEnding(refined) ==
  IF refined # <<>> /\ refined[Len(refined)] \in QuestionMarks THEN refined
  ELSE IF (\E starter \in questionStarters : includes(refined, starter))
            \/ looksLikeQuestion(refined)
       THEN Append(refined, "FWQ")
       ELSE refined

\* refineQuestionAlgorithmically, step 7
Capitalize(refined) ==
  IF refined # <<>> /\ IsLatin(refined[1])
  THEN <<UpperChar(refined[1])>> \o Tail(refined)
  ELSE refined

\* refineQuestionAlgorithmically, steps 1 to 7
RefinementDraft(text) ==
  LET lowered == trim(toLowerCase(text))
      words == SelectNonEmpty(
                 SplitChars(lowered, {" ", "NL", "TEN", "MARU", "FWX", "FWQ"}, <<>>))
      cleanedWords == SelectNotFiller(words)
      deduplicatedWords == Deduplicate(cleanedWords, <<>>)
      joined == trim(CollapseSpaces(join(deduplicatedWords, <<" ">>)))
      step5 == StripTrailingParticle(
                 StripTrailing(joined, {"TEN", "MARU", "FWX", "FWQ", " ", "NL"}))
  IN  Capitalize(EnsureQuestionEnding(step5))

\* refineQuestionAlgorithmically that keeps what steps 1 to 7 leave
refineWithoutFallback(text) == RefinementDraft(text)

\* refineQuestionAlgorithmically: "Fallback: if we cleaned too much, return
\* original"
refineQuestionAlgorithmically(text) ==
  LET refined == RefinementDraft(text)
  IN  IF Len(refined) < 3 \/ Len(trim(RemoveChars(refined, QuestionMarks))) < 2
      THEN text
      ELSE refined

\* ------------------------------------------------------------------------
\* Bounds of the model and constants of the program
\* ------------------------------------------------------------------------

\* batches accepted while listening, over the whole run
MaxBatches == 2

\* clock advances, over the whole run
MaxTicks == 2

\* Date.now() at construction; any value of at least 4000 behaves alike
Epoch == 10000

\* the clock advances by one of these amounts (ms) between two steps
TickSteps == {2000}

\* sample counts of the batches submitted (an empty buffer, 1 s and 2 s of
\* audio)
BatchSamples == {0, 16000, 32000}

sampleRate == 16000
maxWords == 40
questionDetectionEnabled == TRUE
DurationLimitMs == 2000
TimeLimitMs == 4000
HintWindowMs == 3000
StreamingDebounceMs == 500
StreamingBufferCap == 500
RecentBufferCap == 10
MinTranscriptLen == 3

\* いいですね: a statement
Statement == <<"i", "i", "de", "su", "ne">>
\* いつですか？: a question
Question == <<"i", "tsu", "de", "su", "ka", "FWQ">>

\* what the transcription service answers
Transcripts == {<<>>, Statement, Question}

\* exceptions raised while a chunk is created: none, the allocation of the
\* combined array, a listener of chunk-recorded
CreateFaults == {"none", "alloc", "listener"}

\* what can go wrong behind await Promise.all in detectAndRefineQuestions: a
\* listener of question-detected
QuestionFaults == {"none", "listener"}

\* ------------------------------------------------------------------------
\* State
\* ------------------------------------------------------------------------

VARIABLES
  isListening,          \* state.isListening
  isProcessing,         \* state.isProcessing
  lastActivityTime,     \* state.lastActivityTime
  questionBuffer,       \* state.questionBuffer
  currentAudioData,     \* the batches held: [id, len]
  accumulatedSamples,
  wordCount,
  lastChunkTime,
  recentAudioBuffer,
  lastQuestionHintTime,
  streamingBuffer,
  lastStreamingCheck,
  now,                  \* Date.now()
  tasks,                \* the calls in progress (see Task)
  nextBatch,            \* history: batches accepted so far
  nextChunk,            \* history: chunks created so far (a chunk's id)
  balance,              \* history: samples accepted - samples cut into chunks
                        \*          - samples dropped by stopListening
  placed,               \* history: for each batch accepted, the number of chunks
                        \*          it was cut into and of times it was dropped
  destroyed,            \* destroy() was called
  lastTranscriptTime,   \* history: Date.now() when the last transcription
                        \*          result was received (0: none yet)
  emitted,              \* the events emitted by the last step, in order
  lastOp                \* the operation the last step ran (see Begin)

vars ==
  << isListening, isProcessing, lastActivityTime, questionBuffer, currentAudioData,
     accumulatedSamples, wordCount, lastChunkTime, recentAudioBuffer,
     lastQuestionHintTime, streamingBuffer, lastStreamingCheck, now, tasks,
     nextBatch, nextChunk, balance, placed, destroyed, lastTranscriptTime, emitted,
     lastOp >>

\* the fields of the processor
progVars ==
  << isListening, isProcessing, lastActivityTime, questionBuffer, currentAudioData,
     accumulatedSamples, wordCount, lastChunkTime, recentAudioBuffer,
     lastQuestionHintTime, streamingBuffer, lastStreamingCheck >>

\* the state as one value, so that a handler is the composition of its calls
S ==
  [ isListening |-> isListening, isProcessing |-> isProcessing,
    lastActivityTime |-> lastActivityTime, questionBuffer |-> questionBuffer,
    currentAudioData |-> currentAudioData, accumulatedSamples |-> accumulatedSamples,
    wordCount |-> wordCount, lastChunkTime |-> lastChunkTime,
    recentAudioBuffer |-> recentAudioBuffer,
    lastQuestionHintTime |-> lastQuestionHintTime, streamingBuffer |-> streamingBuffer,
    lastStreamingCheck |-> lastStreamingCheck, now |-> now, tasks |-> tasks,
    nextBatch |-> nextBatch, nextChunk |-> nextChunk, balance |-> balance,
    placed |-> placed, destroyed |-> destroyed,
    lastTranscriptTime |-> lastTranscriptTime, emitted |-> emitted,
    lastOp |-> lastOp ]

IsLive(task) == task.pc # "done"

\* the next state is s, without the calls that have returned
Commit(s) ==
  \E next \in {s} :
    /\ isListening' = next.isListening
    /\ isProcessing' = next.isProcessing
    /\ lastActivityTime' = next.lastActivityTime
    /\ questionBuffer' = next.questionBuffer
    /\ currentAudioData' = next.currentAudioData
    /\ accumulatedSamples' = next.accumulatedSamples
    /\ wordCount' = next.wordCount
    /\ lastChunkTime' = next.lastChunkTime
    /\ recentAudioBuffer' = next.recentAudioBuffer
    /\ lastQuestionHintTime' = next.lastQuestionHintTime
    /\ streamingBuffer' = next.streamingBuffer
    /\ lastStreamingCheck' = next.lastStreamingCheck
    /\ now' = next.now
    /\ tasks' = SelectSeq(next.tasks, IsLive)
    /\ nextBatch' = next.nextBatch
    /\ nextChunk' = next.nextChunk
    /\ balance' = next.balance
    /\ placed' = next.placed
    /\ destroyed' = next.destroyed
    /\ lastTranscriptTime' = next.lastTranscriptTime
    /\ emitted' = next.emitted
    /\ lastOp' = next.lastOp

\* what a step records of itself:
\*   op: the operation; chunk: the chunk of the call it continued (0: none);
\*   created: the chunks it created; noop: a call of createAndProcessChunk
\*   found nothing to cut, noopReq: the batches that were held when that cut
\*   was requested; dropped: the batches that stopListening discarded.
Op(op, chunk) ==
  [ op |-> op, chunk |-> chunk, created |-> <<>>, noop |-> FALSE, noopReq |-> {},
    dropped |-> {} ]

\* the state at the start of operation op: nothing emitted yet
Begin(op, chunk) == [S EXCEPT !.emitted = <<>>, !.lastOp = Op(op, chunk)]

\* ------------------------------------------------------------------------
\* Events
\* ------------------------------------------------------------------------

Event(type, chunk, ts, text, s) ==
  [ type |-> type, chunk |-> chunk, ts |-> ts, text |-> text,
    listening |-> s.isListening, processing |-> s.isProcessing ]

\* this.emit(type, ...)
Emit(s, type, chunk, ts, text) ==
  [s EXCEPT !.emitted = Append(@, Event(type, chunk, ts, text, s))]

\* this.emit('state-changed', { ...this.state })
EmitStateChanged(s) == Emit(s, "state-changed", 0, 0, <<>>)

\* ------------------------------------------------------------------------
\* Lifecycle
\* ------------------------------------------------------------------------

RECURSIVE SumLen(_)
SumLen(batches) == IF batches = <<>> THEN 0 ELSE Head(batches).len + SumLen(Tail(batches))

\* startListening without the test of isListening
startListeningAgain(s) ==
  EmitStateChanged([s EXCEPT !.isListening = TRUE, !.lastActivityTime = s.now])

startListening(s) ==
  IF s.isListening THEN s
  ELSE EmitStateChanged([s EXCEPT !.isListening = TRUE, !.lastActivityTime = s.now])

BatchIds(batches) == {batches[i].id : i \in 1..Len(batches)}

\* the history of the batches ids, each cut into one more chunk
MarkCut(history, ids) ==
  [b \in 1..Len(history) |->
     IF b \in ids THEN [history[b] EXCEPT !.cut = @ + 1] ELSE history[b]]

\* the history of the batches ids, each dropped once more
MarkDropped(history, ids) ==
  [b \in 1..Len(history) |->
     IF b \in ids THEN [history[b] EXCEPT !.dropped = @ + 1] ELSE history[b]]

\* stopListening that keeps the pending audio
stopListeningKeepsAudio(s) ==
  IF ~s.isListening THEN s
  ELSE EmitStateChanged([s EXCEPT !.isListening = FALSE, !.isProcessing = FALSE,
                                  !.wordCount = 0])

stopListening(s) ==
  IF ~s.isListening THEN s
  ELSE EmitStateChanged(
         [s EXCEPT !.isListening = FALSE, !.isProcessing = FALSE,
                   !.currentAudioData = <<>>, !.wordCount = 0,
                   !.balance = @ - SumLen(s.currentAudioData),
                   !.placed = MarkDropped(@, BatchIds(s.currentAudioData)),
                   !.lastOp.dropped = BatchIds(s.currentAudioData)])

clearQuestions(s) == EmitStateChanged([s EXCEPT !.questionBuffer = <<>>])

destroy(s) ==
  [s EXCEPT !.currentAudioData = <<>>, !.questionBuffer = <<>>, !.destroyed = TRUE]

\* ------------------------------------------------------------------------
\* Hint tracker
\* ------------------------------------------------------------------------

\* hasRecentQuestionActivity: a quick pattern occurs in the recent transcripts
HasQuestionPattern(s) ==
  LET recentText == toLowerCase(join(s.recentAudioBuffer, <<" ">>))
  IN  \E pattern \in quickQuestionPatterns : includes(recentText, pattern)

\* hasRecentQuestionActivity: the value returned
hasRecentQuestionActivity(s) ==
  \/ s.now - s.lastQuestionHintTime < HintWindowMs
  \/ HasQuestionPattern(s)

\* hasRecentQuestionActivity: the state it leaves
AfterHintCheck(s) ==
  IF s.now - s.lastQuestionHintTime < HintWindowMs THEN s
  ELSE IF HasQuestionPattern(s) THEN [s EXCEPT !.lastQuestionHintTime = s.now]
  ELSE s

\* updateRecentAudioBuffer that never drops an entry
updateRecentAudioBufferUnbounded(s, text) ==
  IF text = <<>> \/ trim(text) = <<>> THEN s
  ELSE [s EXCEPT !.recentAudioBuffer = Append(@, toLowerCase(text))]

updateRecentAudioBuffer(s, text) ==
  IF text = <<>> \/ trim(text) = <<>> THEN s
  ELSE LET pushed == Append(s.recentAudioBuffer, toLowerCase(text))
       IN  [s EXCEPT !.recentAudioBuffer =
                        IF Len(pushed) > RecentBufferCap THEN Tail(pushed) ELSE pushed]

\* no line feed in s[a..b]: "." of a regular expression does not match one
NoLineFeed(s, a, b) == \A k \in a..b : s[k] # "NL"

\* s matches /head[cls].*[closing]/ (cls = {} stands for no class)
MatchesHeadThenClosing(s, head, cls, closing) ==
  \E i \in 1..Len(s) :
    /\ MatchAt(s, head, i)
    /\ LET after == i + Len(head) + (IF cls = {} THEN 0 ELSE 1)
       IN  /\ cls # {} => (i + Len(head) <= Len(s) /\ s[i + Len(head)] \in cls)
           /\ \E j \in after..Len(s) : s[j] \in closing /\ NoLineFeed(s, after, j - 1)

\* s matches /[cls]tail[closing]/ (cls = {} stands for no class)
MatchesTailThenClosing(s, cls, tail, closing) ==
  \E i \in 1..Len(s) :
    LET at == IF cls = {} THEN i ELSE i + 1
    IN  /\ cls # {} => s[i] \in cls
        /\ MatchAt(s, tail, at)
        /\ at + Len(tail) <= Len(s)
        /\ s[at + Len(tail)] \in closing

\* performStreamingQuestionDetection: streamingQuestionPatterns
hasStreamingQuestion(streamingText) ==
  \/ MatchesHeadThenClosing(streamingText, W_dou, C_dou, C_kaq)
  \/ MatchesHeadThenClosing(streamingText, W_nani, C_nani, C_kaq)
  \/ MatchesHeadThenClosing(streamingText, W_itsu, {}, C_kaq)
  \/ MatchesHeadThenClosing(streamingText, W_doko, {}, C_kaq)
  \/ MatchesHeadThenClosing(streamingText, W_dare, {}, C_kaq)
  \/ MatchesHeadThenClosing(streamingText, W_naze, {}, C_kaq)
  \/ MatchesTailThenClosing(streamingText, C_desu, <<"ka">>, C_qmaru)
  \/ MatchesTailThenClosing(streamingText, {}, W_deshouka, C_qmaru)

\* ------------------------------------------------------------------------
\* Chunk creation
\* ------------------------------------------------------------------------

\* a call in progress: a processAudioChunk call (origin "submit") or the
\* createAndProcessChunk call of the streaming trigger (origin "stream").
\*   pc: "check" behind await shouldCreateChunk(), "write" behind the write of
\*   the temporary file, "gateway" behind the transcription request, "unlink"
\*   behind the removal of the temporary file, "detect" behind await
\*   detectAndRefineQuestions(), "done";
\*   sc: what shouldCreateChunk returned; req: the batches held when the cut
\*   was requested; chunk, batches, samples, timestamp: the AudioChunk the call
\*   created (chunk 0: none yet); gw: the transcription requests made for it;
\*   path: the temporary file of the call, named by the clock (0: none yet);
\*   text, det: the transcript and the answer of the detector, behind "detect".
Task(origin, pc, sc, req) ==
  [ origin |-> origin, pc |-> pc, sc |-> sc, req |-> req, chunk |-> 0,
    batches |-> <<>>, samples |-> 0, timestamp |-> 0, gw |-> 0, path |-> 0,
    text |-> <<>>, det |-> "none" ]

calculateDuration(sampleCount) == (sampleCount * 1000) \div sampleRate

\* shouldCreateChunk: a duration test that waits for four seconds of audio
shouldCreateByDurationLate(s) ==
  s.accumulatedSamples * 1000 >= 2 * DurationLimitMs * sampleRate

\* shouldCreateChunk: the conditions
shouldCreateByDuration(s) == s.accumulatedSamples * 1000 >= DurationLimitMs * sampleRate

shouldCreateByTime(s) == s.now - s.lastChunkTime >= TimeLimitMs

shouldCreateByWords(s) == s.wordCount >= maxWords

\* shouldCreateChunk without the condition on the time since the last chunk
shouldCreateChunkUntimed(s) ==
  \/ shouldCreateByDuration(s)
  \/ shouldCreateByWords(s)
  \/ hasRecentQuestionActivity(s)

\* shouldCreateChunk: the value returned
shouldCreateChunk(s) ==
  \/ shouldCreateByDuration(s)
  \/ shouldCreateByTime(s)
  \/ shouldCreateByWords(s)
  \/ hasRecentQuestionActivity(s)

\* the catch blocks of processAudioChunk and createAndProcessChunk
FailSafeStop(s, c) ==
  EmitStateChanged([Emit(s, "error", c, 0, <<>>) EXCEPT !.isListening = FALSE])

\* createTempAudioFile up to the write of the file: the path is
\* audio_${Date.now()}.wav in the temporary directory
createTempAudioFile(s, t) == [s EXCEPT !.tasks[t].path = s.now, !.tasks[t].pc = "write"]

\* transcribeChunk up to its first suspension, the write of the temporary file
transcribeChunkStart(s, t) ==
  IF ~questionDetectionEnabled
  THEN [s EXCEPT !.tasks[t].pc = "done"]
  ELSE createTempAudioFile(EmitStateChanged([s EXCEPT !.isProcessing = TRUE]), t)

\* "Reset accumulation" that leaves the batches in place
ResetAccumulationKeepsAudio(s) ==
  [s EXCEPT !.wordCount = 0, !.accumulatedSamples = 0, !.lastChunkTime = s.now]

\* "Reset accumulation"
ResetAccumulation(s) ==
  [s EXCEPT !.currentAudioData = <<>>, !.wordCount = 0, !.accumulatedSamples = 0,
            !.lastChunkTime = s.now]

\* createAndProcessChunk: the AudioChunk built from the batches held, for task t
BuildChunk(s, t) ==
  LET c == s.nextChunk + 1
      ids == [i \in 1..Len(s.currentAudioData) |-> s.currentAudioData[i].id]
      samples == SumLen(s.currentAudioData)
  IN  [s EXCEPT !.tasks[t].chunk = c,
                !.tasks[t].batches = ids,
                !.tasks[t].samples = samples,
                !.tasks[t].timestamp = s.now,
                !.nextChunk = c,
                !.balance = @ - samples,
                !.placed = MarkCut(@, BatchIds(s.currentAudioData)),
                !.lastOp.created =
                   Append(@, [id |-> c, origin |-> s.tasks[t].origin, batches |-> ids,
                              samples |-> samples, timestamp |-> s.now])]

\* createAndProcessChunk that cuts a chunk of whatever is held, if nothing
NothingToCutIgnored(s) == FALSE

\* createAndProcessChunk: "if (this.currentAudioData.length === 0) return"
NothingToCut(s) == s.currentAudioData = <<>>

\* createAndProcessChunk run by task t, up to its first suspension
createAndProcessChunk(s, t, fault) ==
  IF NothingToCut(s)
  THEN [s EXCEPT !.tasks[t].pc = "done", !.lastOp.noop = TRUE,
                 !.lastOp.noopReq = s.tasks[t].req]
  ELSE IF fault = "alloc"
  THEN FailSafeStop([s EXCEPT !.tasks[t].pc = "done"], 0)
  ELSE
    LET cut == ResetAccumulation(BuildChunk(s, t))
        c == cut.tasks[t].chunk
        recorded == Emit(cut, "chunk-recorded", c, cut.tasks[t].timestamp, <<>>)
    IN  IF fault = "listener"
        THEN FailSafeStop([recorded EXCEPT !.tasks[t].pc = "done"], c)
        ELSE transcribeChunkStart(recorded, t)

\* processAudioChunk up to await shouldCreateChunk(), for a buffer of n samples
processAudioChunkStart(s, n) ==
  IF ~s.isListening THEN s
  ELSE
    LET pushed ==
          [s EXCEPT !.currentAudioData = Append(@, [id |-> s.nextBatch + 1, len |-> n]),
                    !.accumulatedSamples = @ + n,
                    !.lastActivityTime = s.now,
                    !.nextBatch = @ + 1,
                    !.balance = @ + n,
                    !.placed = Append(@, [cut |-> 0, dropped |-> 0])]
        timed == IF pushed.lastChunkTime = 0
                 THEN [pushed EXCEPT !.lastChunkTime = pushed.now]
                 ELSE pushed
    IN  [AfterHintCheck(timed) EXCEPT !.tasks =
           Append(@, Task("submit", "check", shouldCreateChunk(timed),
                          BatchIds(timed.currentAudioData)))]

\* processAudioChunk for an argument that is not a buffer: the catch block
processAudioChunkMalformed(s) ==
  IF ~s.isListening THEN s ELSE FailSafeStop(s, 0)

\* processAudioChunk behind await shouldCreateChunk(), for task t
processAudioChunkResume(s, t, fault) ==
  IF s.tasks[t].sc
  THEN createAndProcessChunk(s, t, fault)
  ELSE [s EXCEPT !.tasks[t].pc = "done"]

\* performStreamingQuestionDetection that scans at every transcript
performStreamingQuestionDetectionUndebounced(s, newText, fault) ==
  LET appended ==
        [s EXCEPT !.streamingBuffer = SliceLast(@ \o <<" ">> \o newText, StreamingBufferCap)]
      checked == [appended EXCEPT !.lastStreamingCheck = appended.now]
      streamingText == trim(toLowerCase(checked.streamingBuffer))
  IN  IF ~hasStreamingQuestion(streamingText) THEN checked
      ELSE
        LET triggered ==
              IF checked.currentAudioData # <<>>
              THEN createAndProcessChunk(
                     [checked EXCEPT !.tasks =
                        Append(@, Task("stream", "check", TRUE,
                                       BatchIds(checked.currentAudioData)))],
                     Len(checked.tasks) + 1, fault)
              ELSE checked
        IN  [triggered EXCEPT !.streamingBuffer = <<>>]

\* performStreamingQuestionDetection
performStreamingQuestionDetection(s, newText, fault) ==
  LET appended ==
        [s EXCEPT !.streamingBuffer = SliceLast(@ \o <<" ">> \o newText, StreamingBufferCap)]
  IN  IF appended.now - appended.lastStreamingCheck < StreamingDebounceMs THEN appended
      ELSE
        LET checked == [appended EXCEPT !.lastStreamingCheck = appended.now]
            streamingText == trim(toLowerCase(checked.streamingBuffer))
        IN  IF ~hasStreamingQuestion(streamingText) THEN checked
            ELSE
              LET triggered ==
                    IF checked.currentAudioData # <<>>
                    THEN createAndProcessChunk(
                           [checked EXCEPT !.tasks =
                              Append(@, Task("stream", "check", TRUE,
                                             BatchIds(checked.currentAudioData)))],
                           Len(checked.tasks) + 1, fault)
                    ELSE checked
              IN  [triggered EXCEPT !.streamingBuffer = <<>>]

\* ------------------------------------------------------------------------
\* Transcription and question detection
\* ------------------------------------------------------------------------

\* QuestionDetector.detectQuestion(transcription): nothing, the transcript as a
\* question, or an exception
DetectorAnswers(text) ==
  { [kind |-> "null", text |-> <<>>],
    [kind |-> "found", text |-> text],
    [kind |-> "throw", text |-> <<>>] }

\* detectAndRefineQuestions: "Skip empty or very short transcriptions"
DetectionSkipped(text) == text = <<>> \/ Len(trim(text)) < MinTranscriptLen

\* the answers of the detector to the call that transcribeChunk makes for text,
\* "none" when it makes no call
DetectorCalls(text) ==
  IF trim(text) = <<>> \/ DetectionSkipped(text)
  THEN { [kind |-> "none", text |-> <<>>] }
  ELSE DetectorAnswers(text)

\* detectAndRefineQuestions: questionParts
QuestionParts(text, kind) ==
  IF kind \in {"null", "found"} THEN splitIntoQuestions(text) ELSE <<>>

\* detectAndRefineQuestions: the question made of one part, or <<>> for null.
\* valid is QuestionDetector.isValidQuestion(tempQuestion).
RefinedQuestion(part, ts, valid) ==
  LET core == trimPreface(part)
  IN  IF core = <<>> \/ Len(trim(core)) < 2 THEN <<>>
      ELSE IF ~valid /\ ~looksLikeQuestion(core) THEN <<>>
      ELSE << [ text |-> trim(core),
                refinedText |-> refineQuestionAlgorithmically(core),
                timestamp |-> ts ] >>

\* detectAndRefineQuestions that takes the parts from the last to the first
AllQuestionsBackwards(parts, ts, validSet) ==
  Flatten([i \in 1..Len(parts) |->
             RefinedQuestion(parts[Len(parts) + 1 - i], ts, (Len(parts) + 1 - i) \in validSet)])

\* detectAndRefineQuestions: allQuestions; validSet holds the parts that
\* QuestionDetector.isValidQuestion accepts
AllQuestions(parts, ts, validSet) ==
  Flatten([i \in 1..Len(parts) |-> RefinedQuestion(parts[i], ts, i \in validSet)])

\* detectAndRefineQuestions that puts the new questions in front of the log
PushQuestionsInFront(s, c, qs) == [s EXCEPT !.questionBuffer = qs \o @]

\* detectAndRefineQuestions: "Add valid questions to state and emit immediately"
RECURSIVE PushQuestions(_, _, _)
PushQuestions(s, c, qs) ==
  IF qs = <<>> THEN s
  ELSE LET q == Head(qs)
           pushed == [s EXCEPT !.questionBuffer = Append(@, q)]
       IN  PushQuestions(Emit(pushed, "question-detected", c, q.timestamp, q.refinedText),
                         c, Tail(qs))

\* detectAndRefineQuestions up to await Promise.all: the exception of the
\* detector is caught and reported here
detectionStart(s, c, det) ==
  IF det.kind = "throw" THEN Emit(s, "error", c, 0, <<>>) ELSE s

\* detectAndRefineQuestions behind await Promise.all, for task t; the
\* exception of a listener of the first question-detected event ends the loop
\* in the catch block
detectionFinish(s, t, validSet, fault) ==
  LET c == s.tasks[t].chunk
      parts == QuestionParts(s.tasks[t].text, s.tasks[t].det)
      allQuestions == AllQuestions(parts, s.tasks[t].timestamp, validSet)
  IN  IF allQuestions = <<>> THEN s
      ELSE IF fault = "listener"
      THEN Emit(PushQuestions(s, c, <<Head(allQuestions)>>), "error", c, 0, <<>>)
      ELSE EmitStateChanged(PushQuestions(s, c, allQuestions))

\* the finally block that leaves isProcessing as it is
transcribeFinallyKeepsProcessing(s, t) ==
  EmitStateChanged([s EXCEPT !.tasks[t].pc = "done"])

\* the finally block that leaves out the state-changed event
transcribeFinallySilent(s, t) ==
  [s EXCEPT !.isProcessing = FALSE, !.tasks[t].pc = "done"]

\* transcribeChunk: the finally block
transcribeFinally(s, t) ==
  EmitStateChanged([s EXCEPT !.isProcessing = FALSE, !.tasks[t].pc = "done"])

\* transcribeChunk: the request is made once the temporary file is written
transcribeRequest(s, t) == [s EXCEPT !.tasks[t].pc = "gateway", !.tasks[t].gw = @ + 1]

\* transcribeChunk whose catch block stops listening
transcribeFailedStops(s, t) ==
  transcribeFinally(FailSafeStop(s, s.tasks[t].chunk), t)

\* transcribeChunk: the request failed; the catch block and the finally block
transcribeFailed(s, t) ==
  transcribeFinally(Emit(s, "error", s.tasks[t].chunk, 0, <<>>), t)

\* transcribeChunk that makes the request again when it has returned
transcribeCleanupRetries(s, t) == [s EXCEPT !.tasks[t].pc = "write"]

\* transcribeChunk: the request returned; cleanupTempFile is awaited
transcribeCleanup(s, t) == [s EXCEPT !.tasks[t].pc = "unlink"]

\* transcribeChunk from the end of cleanupTempFile to the next suspension, for
\* task t and the transcript text.
\*   re: the samples of a batch that a listener of transcription-completed
\*   submits from inside the event (-1: it submits none);
\*   det: the answer of the detector.
\* A transcript that is blank ends the call; otherwise the call waits for
\* detectAndRefineQuestions, whose result takes a turn of the microtask queue
\* even when it returns early.
transcribeCompleted(s, t, text, re, fault, det) ==
  LET c == s.tasks[t].chunk
      completed == Emit([s EXCEPT !.lastTranscriptTime = s.now],
                        "transcription-completed", c, s.tasks[t].timestamp, text)
      reentered == IF re >= 0 THEN processAudioChunkStart(completed, re) ELSE completed
      hinted == updateRecentAudioBuffer(reentered, text)
      streamed == performStreamingQuestionDetection(hinted, text, fault)
  IN  IF trim(text) = <<>>
      THEN transcribeFinally(streamed, t)
      ELSE [detectionStart(streamed, c, det) EXCEPT
              !.tasks[t].pc = "detect", !.tasks[t].text = text, !.tasks[t].det = det.kind]

\* transcribeChunk behind await detectAndRefineQuestions(), for task t
transcribeDetected(s, t, validSet, fault) ==
  transcribeFinally(detectionFinish(s, t, validSet, fault), t)

\* ------------------------------------------------------------------------
\* Specification
\* ------------------------------------------------------------------------

Init ==
  /\ isListening = FALSE
  /\ isProcessing = FALSE
  /\ lastActivityTime = 0
  /\ questionBuffer = <<>>
  /\ currentAudioData = <<>>
  /\ accumulatedSamples = 0
  /\ wordCount = 0
  /\ lastChunkTime = 0
  /\ recentAudioBuffer = <<>>
  /\ lastQuestionHintTime = 0
  /\ streamingBuffer = <<>>
  /\ lastStreamingCheck = 0
  /\ now = Epoch
  /\ tasks = <<>>
  /\ nextBatch = 0
  /\ nextChunk = 0
  /\ balance = 0
  /\ placed = <<>>
  /\ destroyed = FALSE
  /\ lastTranscriptTime = 0
  /\ emitted = <<>>
  /\ lastOp = Op("init", 0)

\* a continuation of processAudioChunk waits in the microtask queue
MicrotaskPending == \E t \in DOMAIN tasks : tasks[t].pc = "check"

\* the continuation at the head of the microtask queue
FirstPending == CHOOSE t \in DOMAIN tasks :
                  tasks[t].pc = "check" /\ \A u \in 1..(t - 1) : tasks[u].pc # "check"

\* a continuation of transcribeChunk waits in the microtask queue: it was
\* queued from a callback of the event loop, which no caller's code follows
DetectPending == \E t \in DOMAIN tasks : tasks[t].pc = "detect"

StartListening ==
  /\ ~destroyed
  /\ ~DetectPending
  /\ Commit(startListening(Begin("start", 0)))

StopListening ==
  /\ ~destroyed
  /\ ~DetectPending
  /\ Commit(stopListening(Begin("stop", 0)))

SubmitAudioBatch ==
  /\ ~destroyed
  /\ ~DetectPending
  /\ isListening => nextBatch < MaxBatches
  /\ \E n \in BatchSamples : Commit(processAudioChunkStart(Begin("submit", 0), n))

\* (when not listening the call is ignored like any other: SubmitAudioBatch)
SubmitMalformed ==
  /\ ~destroyed
  /\ ~DetectPending
  /\ isListening
  /\ Commit(processAudioChunkMalformed(Begin("malformed", 0)))

ResumeAfterCheck ==
  /\ ~destroyed
  /\ MicrotaskPending
  /\ \E fault \in CreateFaults :
       Commit(processAudioChunkResume(Begin("resume", 0), FirstPending, fault))

WriteDone ==
  /\ ~destroyed
  /\ ~MicrotaskPending
  /\ ~DetectPending
  /\ \E t \in DOMAIN tasks :
       /\ tasks[t].pc = "write"
       /\ Commit(transcribeRequest(Begin("request", tasks[t].chunk), t))

\* the temporary file cannot be written: the catch block, with no request made
WriteFail ==
  /\ ~destroyed
  /\ ~MicrotaskPending
  /\ ~DetectPending
  /\ \E t \in DOMAIN tasks :
       /\ tasks[t].pc = "write"
       /\ Commit(transcribeFailed(Begin("unwritten", tasks[t].chunk), t))

GatewayFail ==
  /\ ~destroyed
  /\ ~MicrotaskPending
  /\ ~DetectPending
  /\ \E t \in DOMAIN tasks :
       /\ tasks[t].pc = "gateway"
       /\ Commit(transcribeFailed(Begin("failed", tasks[t].chunk), t))

GatewayReturn ==
  /\ ~destroyed
  /\ ~MicrotaskPending
  /\ ~DetectPending
  /\ \E t \in DOMAIN tasks :
       /\ tasks[t].pc = "gateway"
       /\ Commit(transcribeCleanup(Begin("returned", tasks[t].chunk), t))

\* (the transcript that the request returned is drawn here, where it is first
\* used; the detector is asked only about a transcript that reaches it, and a
\* fault of chunk creation is drawn only where a chunk can be created)
UnlinkDone ==
  /\ ~destroyed
  /\ ~MicrotaskPending
  /\ ~DetectPending
  /\ \E t \in DOMAIN tasks :
       /\ tasks[t].pc = "unlink"
       /\ \E text \in Transcripts, re \in {-1} \cup BatchSamples :
            /\ re >= 0 => (isListening /\ nextBatch < MaxBatches)
            /\ \E fault \in (IF currentAudioData = <<>> /\ re < 0 THEN {"none"} ELSE CreateFaults),
                  det \in DetectorCalls(text) :
                 Commit(transcribeCompleted(Begin("completed", tasks[t].chunk), t, text,
                                            re, fault, det))

\* (the continuation of a processAudioChunk call that a listener made was
\* queued before this one)
DetectDone ==
  /\ ~destroyed
  /\ ~MicrotaskPending
  /\ \E t \in DOMAIN tasks :
       /\ tasks[t].pc = "detect"
       /\ \E validSet \in SUBSET (1..Len(QuestionParts(tasks[t].text, tasks[t].det))),
               fault \in QuestionFaults :
            Commit(transcribeDetected(Begin("detected", tasks[t].chunk), t, validSet, fault))

\* (on an empty log the call only repeats the state-changed event)
ClearQuestions ==
  /\ ~destroyed
  /\ ~DetectPending
  /\ questionBuffer # <<>>
  /\ Commit(clearQuestions(Begin("clear", 0)))

\* (the model ends with the call of destroy)
Destroy ==
  /\ ~destroyed
  /\ ~DetectPending
  /\ Commit(destroy(Begin("destroy", 0)))

Tick ==
  /\ ~destroyed
  /\ ~MicrotaskPending
  /\ ~DetectPending
  /\ \E d \in TickSteps :
       /\ now + d <= Epoch + MaxTicks * d
       /\ Commit([Begin("tick", 0) EXCEPT !.now = @ + d])

Next ==
  \/ StartListening
  \/ StopListening
  \/ SubmitAudioBatch
  \/ SubmitMalformed
  \/ ResumeAfterCheck
  \/ WriteDone
  \/ WriteFail
  \/ GatewayFail
  \/ GatewayReturn
  \/ UnlinkDone
  \/ DetectDone
  \/ ClearQuestions
  \/ Destroy
  \/ Tick

Spec == Init /\ [][Next]_vars

\* ------------------------------------------------------------------------
\* Specification with the scheduling of the event loop: batches of two seconds
\* of audio, short transcripts, no call made by a listener, no clock step
\* ------------------------------------------------------------------------

\* はい
Affirmation == <<"ha", "i">>

\* the transcripts that the gateway returns: none, and one that is too short
\* for the detection
LiveTranscripts == {<<>>, Affirmation}

LiveSubmit ==
  /\ ~destroyed
  /\ ~DetectPending
  /\ isListening => nextBatch < MaxBatches
  /\ Commit(processAudioChunkStart(Begin("submit", 0), 32000))

LiveUnlinkDone ==
  /\ ~destroyed
  /\ ~MicrotaskPending
  /\ ~DetectPending
  /\ \E t \in DOMAIN tasks :
       /\ tasks[t].pc = "unlink"
       /\ \E text \in LiveTranscripts :
            \E det \in DetectorCalls(text) :
              Commit(transcribeCompleted(Begin("completed", tasks[t].chunk), t, text,
                                         -1, "none", det))

LiveNext ==
  \/ StartListening
  \/ StopListening
  \/ LiveSubmit
  \/ ResumeAfterCheck
  \/ WriteDone
  \/ WriteFail
  \/ GatewayFail
  \/ GatewayReturn
  \/ LiveUnlinkDone
  \/ DetectDone

\* The event loop runs every continuation that is ready: the microtasks of
\* processAudioChunk and of transcribeChunk, the end of the write of the
\* temporary file, the end of its removal, and the answer of the gateway,
\* which arrives for every request, with a transcript or with a failure.
Fairness ==
  /\ WF_vars(ResumeAfterCheck)
  /\ WF_vars(WriteDone \/ WriteFail)
  /\ WF_vars(GatewayFail \/ GatewayReturn)
  /\ WF_vars(LiveUnlinkDone)
  /\ WF_vars(DetectDone)

FairSpec == Init /\ [][LiveNext]_vars /\ Fairness

\* ------------------------------------------------------------------------
\* Specification of the text pipeline: one chunk whose request has returned,
\* and every transcript below as the text of the result
\* ------------------------------------------------------------------------

\* いつですかそれからどこですか
TwoQuestions == <<"i", "tsu", "de", "su", "ka", "so", "re", "ka", "ra", "do", "ko", "de", "su", "ka">>

\* いつですか？あとどこですか？
TwoMarkedQuestions == <<"i", "tsu", "de", "su", "ka", "FWQ", "a", "to", "do", "ko", "de", "su", "ka", "FWQ">>

\* いつですか？どこですか？なぜですか？
ThreeQuestions == <<"i", "tsu", "de", "su", "ka", "FWQ", "do", "ko", "de", "su", "ka", "FWQ", "na", "ze", "de", "su", "ka", "FWQ">>

\* いつですか\nどこですか
TwoLines == <<"i", "tsu", "de", "su", "ka", "NL", "do", "ko", "de", "su", "ka">>

\* なぜですかつぎにだれですか
QuestionsByTsugini == <<"na", "ze", "de", "su", "ka", "tsu", "gi", "ni", "da", "re", "de", "su", "ka">>

\* どれですか次にいくらですか
QuestionsByKanjiTsugini == <<"do", "re", "de", "su", "ka", "tsugi", "ni", "i", "ku", "ra", "de", "su", "ka">>

\* いいですね！いつですか
StatementThenQuestion == <<"i", "i", "de", "su", "ne", "FWX", "i", "tsu", "de", "su", "ka">>

\* えー、あのー、？
FillersThenMark == <<"e", "CHO", "TEN", "a", "no", "CHO", "TEN", "FWQ">>

\* えー、あのー、?
FillersThenAsciiMark == <<"e", "CHO", "TEN", "a", "no", "CHO", "TEN", "?">>

\* 何だ？
ShortQuestion == <<"nani", "da", "FWQ">>

\* なんか？
FillerQuestion == <<"na", "n", "ka", "FWQ">>

\* たしかあとでいきます
NoCueWithConnector == <<"ta", "shi", "ka", "a", "to", "de", "i", "ki", "ma", "su">>

\* えっと いつですか
PrefacedQuestion == <<"e", "xtsu", "to", " ", "i", "tsu", "de", "su", "ka">>

\* a いつですか
LatinQuestion == <<"q", " ", "i", "tsu", "de", "su", "ka">>

\* Aについてどうですか？
TopicQuestion == <<"Q", "ni", "tsu", "i", "te", "do", "u", "de", "su", "ka", "FWQ">>

\* 教えてください。
PoliteRequest == <<"oshi", "e", "te", "ku", "da", "sa", "i", "MARU">>

\* いくか
PlainKaQuestion == <<"i", "ku", "ka">>

\* いくか。くるか
TwoPlainKaQuestions == <<"i", "ku", "ka", "MARU", "ku", "ru", "ka">>

\* いいかしら
KashiraQuestion == <<"i", "i", "ka", "shi", "ra">>

\* か？
TooShort == <<"ka", "FWQ">>

\* one space
Blank == <<" ">>

\* the transcripts that the gateway returns to the text pipeline
TextTranscripts ==
  { <<>>, Statement, Question,
    TwoQuestions,
    TwoMarkedQuestions,
    ThreeQuestions,
    TwoLines,
    QuestionsByTsugini,
    QuestionsByKanjiTsugini,
    StatementThenQuestion,
    FillersThenMark,
    FillersThenAsciiMark,
    ShortQuestion,
    FillerQuestion,
    NoCueWithConnector,
    PrefacedQuestion,
    LatinQuestion,
    TopicQuestion,
    PoliteRequest,
    PlainKaQuestion,
    TwoPlainKaQuestions,
    KashiraQuestion,
    TooShort,
    Blank }


\* the state in which the request of the first chunk, two seconds of audio
\* cut on submission, has returned: startListening, processAudioChunk,
\* createAndProcessChunk and transcribeChunk up to await cleanupTempFile
TextInit ==
  /\ isListening = TRUE
  /\ isProcessing = TRUE
  /\ lastActivityTime = Epoch
  /\ questionBuffer = <<>>
  /\ currentAudioData = <<>>
  /\ accumulatedSamples = 0
  /\ wordCount = 0
  /\ lastChunkTime = Epoch
  /\ recentAudioBuffer = <<>>
  /\ lastQuestionHintTime = 0
  /\ streamingBuffer = <<>>
  /\ lastStreamingCheck = 0
  /\ now = Epoch
  /\ tasks = << [Task("submit", "unlink", TRUE, {1}) EXCEPT
                   !.chunk = 1, !.batches = <<1>>,
                   !.samples = 32000, !.timestamp = Epoch, !.gw = 1,
                   !.path = Epoch] >>
  /\ nextBatch = 1
  /\ nextChunk = 1
  /\ balance = 0
  /\ placed = << [cut |-> 1, dropped |-> 0] >>
  /\ destroyed = FALSE
  /\ lastTranscriptTime = 0
  /\ emitted = <<>>
  /\ lastOp = Op("returned", 1)

\* transcribeChunk from the end of cleanupTempFile, as in UnlinkDone, with no
\* call made by a listener
TextCompleted ==
  /\ ~destroyed
  /\ ~MicrotaskPending
  /\ ~DetectPending
  /\ \E t \in DOMAIN tasks :
       /\ tasks[t].pc = "unlink"
       /\ \E text \in TextTranscripts :
            \E det \in DetectorCalls(text) :
              Commit(transcribeCompleted(Begin("completed", tasks[t].chunk), t, text,
                                         -1, "none", det))

TextNext ==
  \/ TextCompleted
  \/ DetectDone

TextSpec == TextInit /\ [][TextNext]_vars

\* ------------------------------------------------------------------------
\* Specification of the hint tracker: a session in which TrackerChunks chunks
\* of two seconds were cut and transcribed as いいですね, one after the other,
\* goes on with further batches, transcripts of every shape and a clock that
\* advances by less than the debounce interval and by more than the hint
\* window
\* ------------------------------------------------------------------------

\* chunks transcribed before the first step: their transcripts fill the ring
\* and all but two characters of the streaming buffer
TrackerChunks == 83

\* batches accepted in the steps that follow
TrackerBatches == 2

\* the clock advances by one of these amounts (ms), once each
TrackerShortStep == 300
TrackerLongStep == 3500

\* Aですね: a statement with a capital letter
UpperStatement == <<"Q", "de", "su", "ne">>

\* the transcripts that the gateway returns to the hint tracker
TrackerTranscripts == {<<>>, Blank, Statement, Question, UpperStatement}

\* performStreamingQuestionDetection for n transcripts いいですね received in
\* the same millisecond: the streaming buffer
StatementsStreamed(n) ==
  LET piece == <<" ">> \o Statement
  IN  [i \in 1..(n * Len(piece)) |-> piece[((i - 1) % Len(piece)) + 1]]

\* the state after startListening and TrackerChunks rounds of processAudioChunk
\* for two seconds of audio, createAndProcessChunk, transcribeChunk with the
\* transcript いいですね and detectAndRefineQuestions that finds no question
TrackerInit ==
  /\ isListening = TRUE
  /\ isProcessing = FALSE
  /\ lastActivityTime = Epoch
  /\ questionBuffer = <<>>
  /\ currentAudioData = <<>>
  /\ accumulatedSamples = 0
  /\ wordCount = 0
  /\ lastChunkTime = Epoch
  /\ recentAudioBuffer =
       [i \in 1..(IF TrackerChunks > RecentBufferCap THEN RecentBufferCap ELSE TrackerChunks)
          |-> Statement]
  /\ lastQuestionHintTime = 0
  /\ streamingBuffer = SliceLast(StatementsStreamed(TrackerChunks), StreamingBufferCap)
  /\ lastStreamingCheck = Epoch
  /\ now = Epoch
  /\ tasks = <<>>
  /\ nextBatch = TrackerChunks
  /\ nextChunk = TrackerChunks
  /\ balance = 0
  /\ placed = [b \in 1..TrackerChunks |-> [cut |-> 1, dropped |-> 0]]
  /\ destroyed = FALSE
  /\ lastTranscriptTime = Epoch
  /\ emitted = << [type |-> "state-changed", chunk |-> 0, ts |-> 0, text |-> <<>>,
                   listening |-> TRUE, processing |-> FALSE] >>
  /\ lastOp = Op("detected", TrackerChunks)

\* processAudioChunk for one or two seconds of audio, as in SubmitAudioBatch
TrackerSubmit ==
  /\ ~DetectPending
  /\ isListening
  /\ nextBatch < TrackerChunks + TrackerBatches
  /\ \E n \in {16000, 32000} : Commit(processAudioChunkStart(Begin("submit", 0), n))

\* processAudioChunk behind await shouldCreateChunk(), with no exception
TrackerResume ==
  /\ MicrotaskPending
  /\ Commit(processAudioChunkResume(Begin("resume", 0), FirstPending, "none"))

\* transcribeChunk from the end of cleanupTempFile, as in UnlinkDone, with no
\* call made by a listener
TrackerCompleted ==
  /\ ~MicrotaskPending
  /\ ~DetectPending
  /\ \E t \in DOMAIN tasks :
       /\ tasks[t].pc = "unlink"
       /\ \E text \in TrackerTranscripts :
            \E det \in DetectorCalls(text) :
              Commit(transcribeCompleted(Begin("completed", tasks[t].chunk), t, text,
                                         -1, "none", det))

\* the clock advances by the short step or by the long step
TrackerTick ==
  /\ ~MicrotaskPending
  /\ ~DetectPending
  /\ \E d \in {TrackerShortStep, TrackerLongStep} :
       /\ now \in {Epoch, Epoch + TrackerShortStep + TrackerLongStep - d}
       /\ Commit([Begin("tick", 0) EXCEPT !.now = @ + d])

TrackerNext ==
  \/ TrackerSubmit
  \/ TrackerResume
  \/ WriteDone
  \/ GatewayReturn
  \/ TrackerCompleted
  \/ DetectDone
  \/ TrackerTick

TrackerSpec == TrackerInit /\ [][TrackerNext]_vars

\* ------------------------------------------------------------------------
\* Properties
\* ------------------------------------------------------------------------

\* the number of events of one type among evs
Count(evs, type) == Cardinality({i \in DOMAIN evs : evs[i].type = type})

\* the batches of the chunk that a call created
ChunkBatches(task) == {task.batches[i] : i \in DOMAIN task.batches}

\* how far the transcription of a call's chunk has come
Rank(pc) ==
  CASE pc = "check" -> 0
    [] pc = "write" -> 1
    [] pc = "gateway" -> 2
    [] pc = "unlink" -> 3
    [] pc = "detect" -> 4
    [] OTHER -> 5

\* C1: every batch accepted while listening is in exactly one place: held in
\* the accumulator, or cut into exactly one chunk, or dropped by stopListening;
\* the samples accepted are the samples cut, plus those dropped, plus those
\* held; and no batch is in two chunks.
SamplesConserved ==
  ~destroyed =>
    /\ balance = SumLen(currentAudioData)
    /\ Len(placed) = nextBatch
    /\ Cardinality(BatchIds(currentAudioData)) = Len(currentAudioData)
    /\ \A b \in 1..nextBatch :
         (IF b \in BatchIds(currentAudioData) THEN 1 ELSE 0)
           + placed[b].cut + placed[b].dropped = 1
    /\ \A t, u \in DOMAIN tasks :
         t # u => ChunkBatches(tasks[t]) \cap ChunkBatches(tasks[u]) = {}
    /\ \A t \in DOMAIN tasks : \A b \in ChunkBatches(tasks[t]) : placed[b].cut = 1

\* C1 happens: one batch was cut into a chunk and another was dropped by a stop
SamplesConservedWitness ==
  /\ ~destroyed
  /\ \E b \in 1..nextBatch : placed[b].cut = 1
  /\ \E b \in 1..nextBatch : placed[b].dropped = 1

\* C2: a chunk creation that was requested for audio which another request has
\* drained since creates no chunk, changes no field and emits nothing, and
\* each batch it was requested for is in exactly one chunk (or was dropped).
DrainedCutIsNoOp ==
  [][ (lastOp'.op = "resume" /\ MicrotaskPending /\ currentAudioData = <<>>
         /\ tasks[FirstPending].sc)
      => /\ UNCHANGED progVars
         /\ emitted' = <<>>
         /\ nextChunk' = nextChunk
         /\ Len(tasks') = Len(tasks) - 1
         /\ \A t \in DOMAIN tasks' : tasks'[t].pc # "check" => tasks'[t] \in
              {tasks[u] : u \in DOMAIN tasks}
         /\ \A b \in tasks[FirstPending].req :
              placed'[b].cut <= 1 /\ placed'[b].cut + placed'[b].dropped = 1
    ]_vars

\* C2 happens: the boundary cut of a batch found that the streaming trigger
\* had cut the same batch into a chunk, which is being transcribed
DrainedCutIsNoOpWitness ==
  /\ lastOp.op = "resume"
  /\ lastOp.noop
  /\ lastOp.noopReq # {}
  /\ emitted = <<>>
  /\ \E t \in DOMAIN tasks :
       tasks[t].origin = "stream" /\ ChunkBatches(tasks[t]) = lastOp.noopReq

\* C3: while listening is false no transcription-completed event and no
\* question-detected event is emitted (the result of a call that was in flight
\* at the stop is discarded).
StaleResultDiscarded ==
  \A i \in DOMAIN emitted :
    emitted[i].type \in {"transcription-completed", "question-detected"}
      => emitted[i].listening

\* C4: the failure of the request for a chunk emits exactly one error event,
\* for that chunk, leaves isListening as it was and isProcessing false, ends the
\* call that cut the chunk, and leaves the accumulator alone; a batch submitted
\* while listening is held.
GatewayFailureHandled ==
  [][ /\ lastOp'.op = "failed" =>
           /\ Count(emitted', "error") = 1
           /\ \A i \in DOMAIN emitted' :
                emitted'[i].type = "error" => emitted'[i].chunk = lastOp'.chunk
           /\ isListening' = isListening
           /\ ~isProcessing'
           /\ \A t \in DOMAIN tasks' : tasks'[t].chunk # lastOp'.chunk
           /\ currentAudioData' = currentAudioData
      /\ (lastOp'.op = "submit" /\ isListening) =>
           /\ Len(currentAudioData') = Len(currentAudioData) + 1
           /\ SubSeq(currentAudioData', 1, Len(currentAudioData)) = currentAudioData
           /\ isListening'
    ]_vars

\* C4 happens: the request for a chunk has failed while listening
GatewayFailureHandledWitness ==
  /\ lastOp.op = "failed"
  /\ lastOp.chunk > 0
  /\ isListening
  /\ Count(emitted, "error") = 1

\* C5: when an exception during the extraction of the questions of a
\* transcript has been reported by an error event, listening is false
\* (fail-safe stop on the refinement path).
RefinementFailureStops ==
  (lastOp.op = "detected" /\ Count(emitted, "error") >= 1) => ~isListening

\* C6: startListening while listening changes no field and emits no event.
StartIsIdempotent ==
  [][ (lastOp'.op = "start" /\ isListening) => (UNCHANGED progVars /\ emitted' = <<>>)
    ]_vars

\* C6 happens: startListening was called while listening, with audio held
StartIsIdempotentWitness ==
  /\ lastOp.op = "start"
  /\ emitted = <<>>
  /\ isListening
  /\ currentAudioData # <<>>

\* C7: stopListening while idle changes no field and emits no event; while
\* listening it ends listening and empties the accumulator, and the audio it
\* drops is in no chunk: no chunk-recorded event, no chunk, no call started and
\* no request made.
StopDiscardsAudio ==
  [][ lastOp'.op = "stop" =>
        IF ~isListening
        THEN UNCHANGED progVars /\ emitted' = <<>>
        ELSE /\ ~isListening'
             /\ currentAudioData' = <<>>
             /\ Count(emitted', "chunk-recorded") = 0
             /\ nextChunk' = nextChunk
             /\ tasks' = tasks
             /\ lastOp'.dropped = BatchIds(currentAudioData)
             /\ \A b \in BatchIds(currentAudioData) : placed'[b].cut = 0
    ]_vars

\* C7 happens: stopListening dropped audio that was held
StopDiscardsAudioWitness ==
  /\ lastOp.op = "stop"
  /\ lastOp.dropped # {}
  /\ ~isListening
  /\ currentAudioData = <<>>

\* C8: while listening, isProcessing is true whenever a transcription request
\* is in flight.
ProcessingWhileInFlight ==
  (isListening /\ \E t \in DOMAIN tasks : tasks[t].pc = "gateway") => isProcessing

\* C9: the transcription of a chunk only advances: one request per chunk, one
\* transcription-completed event per chunk, made when the temporary file is
\* removed and carrying the chunk's id and timestamp; a chunk whose request
\* failed has no call left and its batches are not in the accumulator; and no
\* batch that was cut is held again.
OneTranscriptionPerChunk ==
  [][ /\ \A t \in DOMAIN tasks' :
           /\ tasks'[t].gw <= 1
           /\ tasks'[t].chunk <= nextChunk'
           /\ tasks'[t].gw = (IF Rank(tasks'[t].pc) >= 2 THEN 1 ELSE 0)
           /\ \A u \in DOMAIN tasks' :
                (t # u /\ tasks'[t].chunk # 0) => tasks'[t].chunk # tasks'[u].chunk
           /\ \A u \in DOMAIN tasks :
                (tasks[u].chunk # 0 /\ tasks[u].chunk = tasks'[t].chunk)
                  => /\ Rank(tasks'[t].pc) >= Rank(tasks[u].pc)
                     /\ tasks'[t].batches = tasks[u].batches
                     /\ tasks'[t].timestamp = tasks[u].timestamp
      /\ \A t \in DOMAIN tasks :
           (tasks[t].chunk # 0 /\ tasks[t].chunk # lastOp'.chunk)
             => \E u \in DOMAIN tasks' : tasks'[u] = tasks[t]
      /\ Count(emitted', "transcription-completed") <= 1
      /\ \A i \in DOMAIN emitted' :
           emitted'[i].type = "transcription-completed" =>
             /\ emitted'[i].chunk = lastOp'.chunk
             /\ \E t \in DOMAIN tasks :
                  /\ tasks[t].chunk = emitted'[i].chunk
                  /\ tasks[t].pc = "unlink"
                  /\ tasks[t].timestamp = emitted'[i].ts
             /\ \A t \in DOMAIN tasks' :
                  tasks'[t].chunk = emitted'[i].chunk => tasks'[t].pc = "detect"
      /\ lastOp'.op = "failed" =>
           \E t \in DOMAIN tasks :
             /\ tasks[t].chunk = lastOp'.chunk
             /\ tasks[t].pc = "gateway"
             /\ \A u \in DOMAIN tasks' : tasks'[u].chunk # lastOp'.chunk
             /\ ChunkBatches(tasks[t]) \cap BatchIds(currentAudioData') = {}
      /\ ~destroyed' =>
           \A b \in BatchIds(currentAudioData') : placed'[b].cut = 0
    ]_vars

\* C9 happens: the transcript of the second chunk is announced while listening
OneTranscriptionPerChunkWitness ==
  /\ lastOp.op = "completed"
  /\ lastOp.chunk = 2
  /\ isListening
  /\ \E i \in DOMAIN emitted :
       emitted[i].type = "transcription-completed" /\ emitted[i].chunk = 2

\* C10: the decision taken for a batch accepted while listening is the
\* disjunction of the four conditions (2000 ms of audio accumulated, 4000 ms
\* since the last chunk, maxWords words, recent question activity); the call
\* goes on to cut a chunk exactly when the decision is true, and the chunk is
\* all the audio held, whatever condition made the decision.
BoundaryDecisionIsOr ==
  [][ /\ (lastOp'.op = "submit" /\ isListening) =>
           /\ Len(tasks') = Len(tasks) + 1
           /\ tasks'[Len(tasks')].pc = "check"
           /\ tasks'[Len(tasks')].sc =
                ( \/ (accumulatedSamples' * 1000) \div sampleRate >= DurationLimitMs
                  \/ now' - lastChunkTime' >= TimeLimitMs
                  \/ wordCount' >= maxWords
                  \/ hasRecentQuestionActivity(S)' )
      /\ (lastOp'.op = "resume" /\ MicrotaskPending) =>
           LET task == tasks[FirstPending]
               attempted == \/ Len(lastOp'.created) = 1
                            \/ Count(emitted', "error") = 1
           IN  /\ ~task.sc => (UNCHANGED progVars /\ emitted' = <<>> /\ nextChunk' = nextChunk)
               /\ (task.sc /\ currentAudioData # <<>>) => attempted
               /\ attempted => task.sc
               /\ \A i \in DOMAIN lastOp'.created :
                    /\ lastOp'.created[i].batches =
                         [k \in DOMAIN currentAudioData |-> currentAudioData[k].id]
                    /\ lastOp'.created[i].samples = SumLen(currentAudioData)
                    /\ lastOp'.created[i].timestamp = now
                    /\ currentAudioData' = <<>>
    ]_vars

\* C10 happens: the decision for a batch is true by the time since the last
\* chunk alone
BoundaryDecisionIsOrWitness ==
  /\ lastOp.op = "submit"
  /\ tasks # <<>>
  /\ tasks[Len(tasks)].pc = "check"
  /\ tasks[Len(tasks)].sc
  /\ (accumulatedSamples * 1000) \div sampleRate < DurationLimitMs
  /\ now - lastChunkTime >= TimeLimitMs
  /\ wordCount < maxWords
  /\ ~hasRecentQuestionActivity(S)

\* a is a prefix of b
IsPrefix(a, b) == Len(a) <= Len(b) /\ SubSeq(b, 1, Len(a)) = a

\* C11: every operation other than clearQuestions and destroy leaves the
\* entries of the question log in place and only appends at its end;
\* clearQuestions and destroy empty it.
LogAppendOnly ==
  [][ /\ lastOp'.op \notin {"clear", "destroy"} => IsPrefix(questionBuffer, questionBuffer')
      /\ lastOp'.op \in {"clear", "destroy"} => questionBuffer' = <<>>
    ]_vars

\* C11 happens: a question was appended to a log that held one
LogAppendOnlyWitness ==
  /\ lastOp.op = "detected"
  /\ Len(questionBuffer) = 2
  /\ Count(emitted, "question-detected") = 1

\* C11 as stated: every operation other than clearQuestions, destroy
\* included, leaves the entries of the question log in place.
LogAppendOnlyButClear ==
  [][ lastOp'.op # "clear" => IsPrefix(questionBuffer, questionBuffer') ]_vars

\* C12: every question of the log and every question-detected event has a
\* non-empty refinedText, and where steps 1 to 7 of the refinement leave fewer
\* than 3 characters, or fewer than 2 characters other than question marks,
\* the refinedText is the text of the candidate
RefinedTextNeverEmpty ==
  /\ \A i \in DOMAIN questionBuffer :
       LET q == questionBuffer[i]
           r == RefinementDraft(q.text)
       IN  /\ q.refinedText # <<>>
           /\ (Len(r) < 3 \/ Len(RemoveChars(r, QuestionMarks)) < 2)
                => q.refinedText = q.text
  /\ \A i \in DOMAIN emitted :
       emitted[i].type = "question-detected" => emitted[i].text # <<>>

\* C12 happens: the refinement of 何だ leaves 何？ and that of なんか nothing,
\* and the question is logged and emitted with the text of the candidate
RefinedTextNeverEmptyWitness ==
  /\ lastOp.op = "detected"
  /\ Len(questionBuffer) = 1
  /\ questionBuffer[1].text \in {<<"nani", "da">>, <<"na", "n", "ka">>}
  /\ Len(RefinementDraft(questionBuffer[1].text)) < 3
  /\ questionBuffer[1].refinedText = questionBuffer[1].text
  /\ \E i \in DOMAIN emitted :
       /\ emitted[i].type = "question-detected"
       /\ emitted[i].text = questionBuffer[1].text

\* the question-detected events among evs, in their order
QuestionEvents(evs) == SelectSeq(evs, LAMBDA e : e.type = "question-detected")

\* the first position from which w occurs in s at or after position from, 0
\* when there is none
FirstMatch(s, w, from) ==
  IF \E k \in from..Len(s) : MatchAt(s, w, k)
  THEN CHOOSE k \in from..Len(s) :
         MatchAt(s, w, k) /\ \A m \in from..(k - 1) : ~MatchAt(s, w, m)
  ELSE 0

\* the texts ws occur in s one after the other, from position from on
RECURSIVE InOrder(_, _, _)
InOrder(ws, s, from) ==
  \/ ws = <<>>
  \/ LET k == FirstMatch(s, Head(ws), from)
     IN  k # 0 /\ InOrder(Tail(ws), s, k + Len(Head(ws)))

NoInterrogativeCue(text) ==
  /\ \A cue \in QuestionWordPatterns \cup questionStarters \cup QuestionEndingPatterns
                 \cup PoliteRequestsLooks \cup PoliteRequestsSplit :
       ~includes(text, cue)
  /\ \A i \in DOMAIN text :
       /\ text[i] \notin QuestionMarks
       /\ text[i] = "ka"
            => i < Len(text) /\ text[i + 1] \notin {"MARU", "FWX", "!", "NL", "TEN", " "}

\* C14 as stated: for a transcript without an interrogative cue and without a
\* question mark, neither the completion of the transcription nor the end of
\* its detection emits question-detected or changes the question log,
\* whatever the detector answers.
NoCueNoQuestion ==
  [][ /\ \A i \in DOMAIN emitted' :
           (emitted'[i].type = "transcription-completed"
              /\ NoInterrogativeCue(emitted'[i].text))
           => QuestionEvents(emitted') = <<>> /\ questionBuffer' = questionBuffer
      /\ \A t \in DOMAIN tasks :
           (tasks[t].pc = "detect" /\ lastOp'.op = "detected"
              /\ NoInterrogativeCue(tasks[t].text))
           => QuestionEvents(emitted') = <<>> /\ questionBuffer' = questionBuffer
    ]_vars

\* text is made of filler words, separated by 、 or spaces, and the mark ？
FillersThenFullWidthMark(text) ==
  /\ Len(text) >= 2
  /\ text[Len(text)] = "FWQ"
  /\ LET words == SelectNonEmpty(
                    SplitChars(SubSeq(text, 1, Len(text) - 1), {" ", "TEN"}, <<>>))
     IN  words # <<>> /\ \A i \in DOMAIN words : words[i] \in fillerWords

\* C15 as stated: when detection ends without an exception for a transcript
\* made of filler words followed by ？, a question-detected event with
\* non-empty text was emitted and its question is in the log.
FillerQuestionSurvives ==
  [][ \A t \in DOMAIN tasks :
        (/\ tasks[t].pc = "detect" /\ tasks[t].det # "throw"
         /\ lastOp'.op = "detected"
         /\ FillersThenFullWidthMark(tasks[t].text))
        => /\ QuestionEvents(emitted') # <<>>
           /\ QuestionEvents(emitted')[1].text # <<>>
           /\ Len(questionBuffer') = Len(questionBuffer) + 1
    ]_vars

\* C16 as stated: no chunk of zero samples is sent to the gateway.
EmptyBatchNeverCut ==
  \A t \in DOMAIN tasks :
    (tasks[t].chunk # 0 /\ tasks[t].pc = "gateway") => tasks[t].samples > 0

\* the flags before a step (i = 0), as event i of the step carried them, and
\* after the step (i = Len(evs) + 1)
FlagsAt(pre, evs, post, i) ==
  IF i = 0 THEN pre
  ELSE IF i <= Len(evs) THEN <<evs[i].listening, evs[i].processing>>
  ELSE post

\* every change of the flags in a step is followed at once by a state-changed
\* event that carries the new values
ChangesAnnounced(pre, evs, post) ==
  \A i \in 1..(Len(evs) + 1) :
    FlagsAt(pre, evs, post, i) # FlagsAt(pre, evs, post, i - 1)
    => i <= Len(evs) /\ evs[i].type = "state-changed"

\* between two events of a step at most one of the flags changes
ChangesOneByOne(pre, evs, post) ==
  \A i \in 1..(Len(evs) + 1) :
    \/ FlagsAt(pre, evs, post, i)[1] = FlagsAt(pre, evs, post, i - 1)[1]
    \/ FlagsAt(pre, evs, post, i)[2] = FlagsAt(pre, evs, post, i - 1)[2]

\* the events of a step that name a chunk come in the order of the chunk's
\* life: chunk-recorded in the step that creates the chunk and before any
\* other event of it, transcription-completed in the step that follows the
\* removal of its temporary file, question-detected in the step that ends its
\* detection; and a call reaches each of these steps only from the one before
ChunkEventsInOrder ==
  /\ \A i \in DOMAIN emitted' :
       LET e == emitted'[i]
       IN  /\ e.type = "chunk-recorded"
                => /\ e.chunk > nextChunk /\ e.chunk <= nextChunk'
                   /\ \A j \in 1..(i - 1) : emitted'[j].chunk # e.chunk
           /\ e.type = "transcription-completed"
                => \E t \in DOMAIN tasks : tasks[t].chunk = e.chunk /\ tasks[t].pc = "unlink"
           /\ e.type = "question-detected"
                => \E t \in DOMAIN tasks : tasks[t].chunk = e.chunk /\ tasks[t].pc = "detect"
  /\ \A c \in (nextChunk + 1)..nextChunk' :
       \E i \in DOMAIN emitted' : emitted'[i].type = "chunk-recorded" /\ emitted'[i].chunk = c
  /\ \A u \in DOMAIN tasks' :
       /\ tasks'[u].pc = "unlink"
            => \E t \in DOMAIN tasks :
                  tasks[t].chunk = tasks'[u].chunk /\ tasks[t].pc \in {"gateway", "unlink"}
       /\ tasks'[u].pc = "detect"
            => \E t \in DOMAIN tasks :
                  tasks[t].chunk = tasks'[u].chunk /\ tasks[t].pc \in {"unlink", "detect"}

NoChunkWhileNotListening ==
  \A i \in DOMAIN emitted :
    emitted[i].type = "chunk-recorded" => emitted[i].listening

\* C19: when every continuation that is ready runs and every request is
\* answered, every transcription in flight ends and from some point on none
\* is in flight and isProcessing is false; isProcessing is false whenever no
\* call is in flight; and startListening,
\* stopListening and processAudioChunk can be called whenever the program
\* waits for the event loop.
NeverDeadlocks ==
  /\ [](tasks = <<>> => ~isProcessing)
  /\ []((~destroyed /\ ~DetectPending)
          => /\ ENABLED StartListening
             /\ ENABLED StopListening
             /\ (isListening => nextBatch < MaxBatches) => ENABLED SubmitAudioBatch)
  /\ <>[](tasks = <<>> /\ ~isProcessing)

\* C19 happens: two chunks were cut and sent, and every call has ended
NeverDeadlocksWitness ==
  /\ nextChunk >= 2
  /\ tasks = <<>>
  /\ ~isProcessing
  /\ ~destroyed
  /\ lastOp.op \in {"completed", "detected", "failed", "unwritten"}

HintExpires ==
  [][ ( /\ lastOp'.op = "submit"
        /\ isListening
        /\ Len(tasks') = Len(tasks) + 1
        /\ tasks'[Len(tasks')].sc
        /\ ~shouldCreateByDuration(S)'
        /\ ~shouldCreateByTime(S)'
        /\ ~shouldCreateByWords(S)' )
      => now' - lastTranscriptTime' <= HintWindowMs
    ]_vars

\* the text of the transcription result that a step received
ReceivedText(evs) ==
  evs[CHOOSE i \in DOMAIN evs : evs[i].type = "transcription-completed"].text

ScanDebounced ==
  [][ /\ lastOp'.op = "completed" =>
           \E appended \in {SliceLast(streamingBuffer \o <<" ">> \o ReceivedText(emitted'),
                                      StreamingBufferCap)} :
             IF now - lastStreamingCheck < StreamingDebounceMs
             THEN /\ streamingBuffer' = appended
                  /\ lastStreamingCheck' = lastStreamingCheck
                  /\ lastOp'.created = <<>>
                  /\ nextChunk' = nextChunk
                  /\ currentAudioData' = currentAudioData
             ELSE /\ lastStreamingCheck' = now
                  /\ \E scanned \in {trim(toLowerCase(appended))} :
                       streamingBuffer' =
                         IF hasStreamingQuestion(scanned) THEN <<>> ELSE appended
      /\ lastOp'.op # "completed" =>
           UNCHANGED <<streamingBuffer, lastStreamingCheck>>
    ]_vars

\* C23 happens: いつですか？ arrived 300 ms after the last scan and lies at the
\* end of the buffer, unscanned
ScanDebouncedWitness ==
  /\ lastOp.op = "completed"
  /\ ReceivedText(emitted) = Question
  /\ now = Epoch + TrackerShortStep
  /\ lastStreamingCheck = Epoch
  /\ SliceLast(streamingBuffer, Len(Question) + 1) = <<" ">> \o Question

\* the step requested a chunk cut out of band: createAndProcessChunk was
\* called by the streaming trigger and cut a chunk, or failed before it had
\* one (the error event of its catch block names no chunk)
CutOutOfBand(created, evs) ==
  \/ \E i \in DOMAIN created : created[i].origin = "stream"
  \/ \E i \in DOMAIN evs : evs[i].type = "error" /\ evs[i].chunk = 0

\* C24: a positive scan of the streaming buffer empties the buffer, and cuts
\* a chunk out of band exactly when the accumulator holds audio; a negative
\* scan leaves the buffer, with the new text appended, and the accumulator as
\* they are. (Steps in which no listener submits a batch from inside the
\* transcription-completed event.)
PositiveScanCutsHeldAudio ==
  [][ ( /\ lastOp'.op = "completed"
        /\ nextBatch' = nextBatch
        /\ now - lastStreamingCheck >= StreamingDebounceMs )
      => \E appended \in {SliceLast(streamingBuffer \o <<" ">> \o ReceivedText(emitted'),
                                    StreamingBufferCap)} :
           \E scanned \in {trim(toLowerCase(appended))} :
             IF hasStreamingQuestion(scanned)
             THEN /\ streamingBuffer' = <<>>
                  /\ CutOutOfBand(lastOp'.created, emitted')
                       <=> SumLen(currentAudioData) > 0
             ELSE /\ streamingBuffer' = appended
                  /\ currentAudioData' = currentAudioData
                  /\ lastOp'.created = <<>>
    ]_vars

\* C25: in every state the counter of accumulated samples, which the duration
\* condition reads, is the number of samples held in the accumulator.
CounterMatchesHeldSamples ==
  ~destroyed => accumulatedSamples = SumLen(currentAudioData)

\* C26: in every state, processing implies listening: the state is Idle,
\* Listening or Listening(Processing).
ProcessingOnlyWhileListening ==
  isProcessing => isListening

\* the calls of transcribeChunk whose temporary file is in use: being written,
\* read by the gateway, or being removed
UsesTempFile(task) == task.pc \in {"write", "gateway", "unlink"}

\* C27: two calls of transcribeChunk in progress at the same time never use
\* the same temporary file.
TempFilesNotShared ==
  \A t, u \in DOMAIN tasks :
    (t # u /\ UsesTempFile(tasks[t]) /\ UsesTempFile(tasks[u]))
      => tasks[t].path # tasks[u].path

\* C28: the time since the last chunk does not carry over a stop. The batch
\* submitted right after startListening has started a session is not cut by
\* the time condition alone: when it brings audio, less than 2000 ms of audio
\* is counted, fewer than maxWords words and no question hint, the decision is
\* not to cut.
SessionRestartsTheClock ==
  [][ ( /\ lastOp.op = "start"
        /\ emitted # <<>>
        /\ lastOp'.op = "submit"
        /\ Len(tasks') = Len(tasks) + 1
        /\ accumulatedSamples' > accumulatedSamples
        /\ ~shouldCreateByDuration(S)'
        /\ ~shouldCreateByWords(S)'
        /\ ~hasRecentQuestionActivity(S)' )
      => ~tasks'[Len(tasks')].sc
    ]_vars

====
